---- MODULE Spec2Model ----
(***************************************************************************)
(* Model of the rent-app backend (src/app.py): the rental-request          *)
(* lifecycle, the find-or-create chat coupling, listing visibility, the    *)
(* chat messages, the user accounts and the admin deletion of a user.      *)
(*                                                                         *)
(* Every table is a sequence of rows; a row's primary key is its position  *)
(* (autoincrement ids are never reused) and a deleted row leaves NoRow.    *)
(* A handler is an operator from the database d and the inputs of the HTTP *)
(* request to the set of its possible results, each the database after the *)
(* request and the response; one step of the specification is one handler  *)
(* run from request to response (the handlers run one at a time).  An      *)
(* unhandled Python exception ends the request with a 500 response and     *)
(* rolls back what was not yet committed.  The state is the database and   *)
(* the response of the last request that changed it.  Under SpecRace two   *)
(* find-or-create calls run interleaved, a lookup and an insert at a time. *)
(***************************************************************************)
EXTENDS Integers, Sequences, FiniteSets, TLC

VARIABLES
    users,      \* table User
    listings,   \* table Listing
    chats,      \* table Chat
    requests,   \* table RentalRequest
    messages,   \* table Message
    last,       \* the response of the last request that changed the database
    calls       \* the find-or-create calls that run interleaved (SpecRace)

vars == <<users, listings, chats, requests, messages, last, calls>>

\* ------------------------------------------------------------- bounds
\* Total number of rows ever inserted over all tables, under Spec and under
\* SpecAll.
MaxRows == 4
MaxAllRows == 3
\* Total number of rows under SpecChat.
MaxChatRows == 5
\* Number of chats under SpecRace.
MaxRaceChats == 3
\* Total number of rows under SpecAdmin.
MaxAdminRows == 6
\* Number of users ever signed up under SpecUsers.
MaxUserRows == 3
\* Total number of rows under SpecViews.
MaxViewRows == 6
\* Total number of rows under SpecSafe.
MaxSafeRows == 4
\* Total number of rows under SpecBrowse.
MaxBrowseRows == 4

\* The user ids the requests name.  No handler of listings, chats, rental
\* requests or messages looks the user up.
UserIds == {1, 2}

\* A NULL column (also a key that is absent or falsy in a request body).
NULL == 0
\* The place of a deleted row.
NoRow == [deleted |-> TRUE]

\* ------------------------------------------------------------- tables
Ids(table) == {i \in 1..Len(table) : table[i] # NoRow}

\* The database: the five tables.
DB == [users |-> users, listings |-> listings, chats |-> chats,
       requests |-> requests, messages |-> messages]

Rows(d) ==
    Len(d.users) + Len(d.listings) + Len(d.chats) + Len(d.requests)
        + Len(d.messages)

\* Mutant of NewListing: a listing is created rented.
NewListing_rented(user_id, place) ==
    [user_id |-> user_id, is_rented |-> TRUE,
     latitude |-> place.latitude, longitude |-> place.longitude,
     city |-> place.city, area |-> place.area]

\* Listing(user_id=..., latitude=data.get("latitude"), ...): is_rented
\* defaults to False.  A coordinate is <<>> (None) or <<n>>, the number n
\* counting grid steps of 40 m along the earth's surface; city and area are
\* texts, <<>> when the body has none.  The other columns (title, price) are
\* read by no operation modelled here.
NewListing(user_id, place) ==
    [user_id |-> user_id, is_rented |-> FALSE,
     latitude |-> place.latitude, longitude |-> place.longitude,
     city |-> place.city, area |-> place.area]

\* Chat(user1_id=..., user2_id=...)
NewChat(user1_id, user2_id) == [user1_id |-> user1_id, user2_id |-> user2_id]

\* Mutant of NewRequest: the chat id is not recorded on the request.
NewRequest_without_chat(listing_id, renter_id, owner_id, chat_id) ==
    [listing_id |-> listing_id, renter_id |-> renter_id, owner_id |-> owner_id,
     chat_id |-> NULL, status |-> "pending",
     cnic_image |-> "None", selfie_image |-> "None",
     renter_verified |-> FALSE, safety_rules_agreed |-> FALSE]

\* RentalRequest(...): status defaults to "pending", renter_verified and
\* safety_rules_agreed to False; the two images are NULL ("None").
NewRequest(listing_id, renter_id, owner_id, chat_id) ==
    [listing_id |-> listing_id, renter_id |-> renter_id, owner_id |-> owner_id,
     chat_id |-> chat_id, status |-> "pending",
     cnic_image |-> "None", selfie_image |-> "None",
     renter_verified |-> FALSE, safety_rules_agreed |-> FALSE]

\* RentalRequest(..., cnic_image=data["cnic_image"],
\* selfie_image=data["selfie_image"], renter_verified=True,
\* safety_rules_agreed=data["rules_agreed"]): the request of create_safe_rent.
NewSafeRequest(listing_id, renter_id, owner_id, chat_id, safe) ==
    [NewRequest(listing_id, renter_id, owner_id, chat_id) EXCEPT
        !.cnic_image = safe.cnic_image,
        !.selfie_image = safe.selfie_image,
        !.renter_verified = TRUE,
        !.safety_rules_agreed = safe.rules_agreed]

\* Message(..., status="sent", is_read=False)
NewMessage(chat_id, sender_id) ==
    [chat_id |-> chat_id, sender_id |-> sender_id, status |-> "sent",
     is_read |-> FALSE]

\* The HTTP response of a handler: the handler, the status code, and whether
\* the body reports a failure ("success": False, or an error page).
Response(op, code, error) == [op |-> op, code |-> code, error |-> error]

\* A body without failure, default status.
Ok(op) == Response(op, 200, FALSE)
\* jsonify({"success": False, ...}) with the default status.
Failed(op) == Response(op, 200, TRUE)
\* An exception no handler catches: Flask answers 500.
ServerError(op) == Response(op, 500, TRUE)

\* One result of a handler: the database after it and its response.
Result(d, r) == [db |-> d, resp |-> r]
\* A result whose body also carries a chat id.
ResultChat(d, r, chat_id) == [db |-> d, resp |-> r, chat_id |-> chat_id]

\* No find-or-create call is in flight.
NoCalls == <<>>

Init ==
    /\ users = <<>>
    /\ calls = NoCalls
    /\ listings = <<>>
    /\ chats = <<>>
    /\ requests = <<>>
    /\ messages = <<>>
    /\ last = Ok("none")

\* ------------------------------------------------------------- users
\* A text is a sequence of characters; the empty text is falsy, as an absent
\* key is.
LowerChar(ch) ==
    CASE ch = "A" -> "a"
      [] ch = "B" -> "b"
      [] OTHER -> ch

\* str.lower()
Lower(text) == [i \in 1..Len(text) |-> LowerChar(text[i])]

\* str.strip(): leading and trailing blanks go.
RECURSIVE Strip(_)
Strip(text) ==
    IF text = <<>> THEN text
    ELSE IF Head(text) = " " THEN Strip(Tail(text))
    ELSE IF text[Len(text)] = " " THEN Strip(SubSeq(text, 1, Len(text) - 1))
    ELSE text

\* generate_password_hash / check_password_hash: a hash checks against the
\* password it was made from and no other.
generate_password_hash(password) == <<"hash", password>>
check_password_hash(pwhash, password) == pwhash = generate_password_hash(password)

\* User(name=..., email=..., phone=..., password=...): is_blocked defaults to
\* False.
NewUser(email, phone, password) ==
    [email |-> email, phone |-> phone, password |-> password,
     is_blocked |-> FALSE]

\* A result whose body names a user.
ResultUser(d, r, user_id) == [db |-> d, resp |-> r, user_id |-> user_id]

\* A result whose body carries an error text.
ResultError(d, r, message) == [db |-> d, resp |-> r, message |-> message]

\* Mutant of NormalEmail: the letter case is kept.
NormalEmail_keeps_case(email) == Strip(email)

\* (data.get("email") or "").strip().lower()
NormalEmail(email) == Lower(Strip(email))

\* User.query.filter(db.func.lower(User.email) == email)
existing_email(us, email) ==
    {u \in Ids(us) : Lower(us[u].email) = email}

\* User.query.filter_by(phone=phone)
existing_phone(us, phone) ==
    {u \in Ids(us) : us[u].phone = phone}

\* POST /api/signup.  The email is stripped and lowered, the phone stripped;
\* a missing field, a registered email and a registered phone each answer 400.
api_signup(d, name, email, phone, password) ==
    LET e == NormalEmail(email)
        p == Strip(phone)
    IN  IF name = "" \/ e = <<>> \/ p = <<>> \/ password = ""
        THEN {ResultError(d, Response("api_signup", 400, TRUE), "Missing fields")}
        ELSE IF existing_email(d.users, e) # {}
        THEN {ResultError(d, Response("api_signup", 400, TRUE),
                          "Email already registered")}
        ELSE IF existing_phone(d.users, p) # {}
        THEN {ResultError(d, Response("api_signup", 400, TRUE),
                          "Phone number already registered")}
        ELSE {ResultUser(
                [d EXCEPT !.users = Append(@,
                    NewUser(e, p, generate_password_hash(password)))],
                Ok("api_signup"), Len(d.users) + 1)}

\* Mutant of api_login: the password is checked before the block flag.
api_login_password_first(d, email, password) ==
    LET e == NormalEmail(email)
        found == existing_email(d.users, e)
    IN  IF e = <<>> \/ password = ""
        THEN {Result(d, Response("api_login", 400, TRUE))}
        ELSE IF found = {}
        THEN {Result(d, Response("api_login", 401, TRUE))}
        ELSE {IF ~check_password_hash(d.users[u].password, password)
              THEN Result(d, Response("api_login", 401, TRUE))
              ELSE IF d.users[u].is_blocked
              THEN Result(d, Response("api_login", 403, TRUE))
              ELSE ResultUser(d, Ok("api_login"), u) : u \in found}

\* POST /api/login: missing credentials 400, unknown email 401, blocked 403,
\* wrong password 401, else the user.
api_login(d, email, password) ==
    LET e == NormalEmail(email)
        found == existing_email(d.users, e)
    IN  IF e = <<>> \/ password = ""
        THEN {Result(d, Response("api_login", 400, TRUE))}
        ELSE IF found = {}
        THEN {Result(d, Response("api_login", 401, TRUE))}
        ELSE {IF d.users[u].is_blocked
              THEN Result(d, Response("api_login", 403, TRUE))
              ELSE IF ~check_password_hash(d.users[u].password, password)
              THEN Result(d, Response("api_login", 401, TRUE))
              ELSE ResultUser(d, Ok("api_login"), u) : u \in found}

\* A redirect to the admin dashboard.
Redirect(op) == Response(op, 302, FALSE)
\* get_or_404 on an id of no row.
NotFound(op) == Response(op, 404, TRUE)

\* POST /admin/user/block/<user_id>
admin_block_user(d, user_id) ==
    IF user_id \notin Ids(d.users)
    THEN {Result(d, NotFound("admin_block_user"))}
    ELSE {Result([d EXCEPT !.users[user_id].is_blocked = TRUE],
                 Redirect("admin_block_user"))}

\* POST /admin/user/unblock/<user_id>
admin_unblock_user(d, user_id) ==
    IF user_id \notin Ids(d.users)
    THEN {Result(d, NotFound("admin_unblock_user"))}
    ELSE {Result([d EXCEPT !.users[user_id].is_blocked = FALSE],
                 Redirect("admin_unblock_user"))}

\* ------------------------------------------------------------- listings
\* POST /api/listings/create
create_listing(d, user_id, place) ==
    {Result([d EXCEPT !.listings = Append(@, NewListing(user_id, place))],
            Ok("create_listing"))}

\* Mutant of get_listings: the is_rented filter is dropped.
get_listings_unfiltered(ls) == Ids(ls)

\* GET /api/listings: the ids of the listings with is_rented = False.
get_listings(ls) == {l \in Ids(ls) : ls[l].is_rented = FALSE}

\* db.session.delete(listing): the row goes, and the requests of the
\* Listing.rental_requests relationship (no delete cascade is declared) get
\* listing_id NULL.
DeleteListing(d, listing_id) ==
    LET rs == d.requests
    IN  [d EXCEPT
            !.listings = [@ EXCEPT ![listing_id] = NoRow],
            !.requests = [r \in 1..Len(rs) |->
                IF rs[r] # NoRow /\ rs[r].listing_id = listing_id
                THEN [rs[r] EXCEPT !.listing_id = NULL]
                ELSE rs[r]]]

\* DELETE /api/listings/delete/<listing_id>: an unknown id answers 200 with
\* success false.
delete_listing(d, listing_id) ==
    IF listing_id \notin Ids(d.listings)
    THEN {Result(d, Failed("delete_listing"))}
    ELSE {Result(DeleteListing(d, listing_id), Ok("delete_listing"))}

\* radius_km of nearby_listings.
radius_km == 15

\* haversine(lat1, lon1, lat2, lon2), in metres.  Between two points of one
\* meridian dlon = 0, so a = sin(dlat/2)**2 and R * c = R * |dlat|; between
\* two points of the equator R * c = R * |dlon| likewise.  The coordinates
\* count grid steps of 40 m, and the places of this model lie on one meridian.
haversine(lat1, lon1, lat2, lon2) ==
    IF lon1 = lon2
    THEN 40 * (IF lat2 >= lat1 THEN lat2 - lat1 ELSE lat1 - lat2)
    ELSE 40 * (IF lon2 >= lon1 THEN lon2 - lon1 ELSE lon1 - lon2)

\* round(dist, 1): metres to tenths of a kilometre.  A multiple of 40 m is
\* never half-way between two tenths.
Round1(dist) == (dist + 50) \div 100

\* `if l.latitude and l.longitude`: None and 0.0 are both false.
Truthy(coordinate) == coordinate # <<>> /\ coordinate # <<0>>

\* nearby.sort(key=lambda x: x["distance"]): a stable sort on the rounded
\* distance.
RECURSIVE SortByDistance(_)
SortByDistance(nearby) ==
    IF nearby = <<>> THEN <<>>
    ELSE LET e      == nearby[Len(nearby)]
             sorted == SortByDistance(SubSeq(nearby, 1, Len(nearby) - 1))
             before == SelectSeq(sorted, LAMBDA x : x.distance <= e.distance)
             after  == SelectSeq(sorted, LAMBDA x : x.distance > e.distance)
         IN  before \o <<e>> \o after

\* POST /api/listings/nearby.  Listing.query.all() is taken in id order.  A
\* body without latitude or longitude makes haversine raise on the first
\* listing that has coordinates.
nearby_listings(d, user_lat, user_lon) ==
    LET ls      == d.listings
        located == {l \in Ids(ls) :
                        Truthy(ls[l].latitude) /\ Truthy(ls[l].longitude)}
        dist(l) == haversine(user_lat[1], user_lon[1],
                             ls[l].latitude[1], ls[l].longitude[1])
        all     == [l \in 1..Len(ls) |->
                        IF l \in located
                        THEN [id |-> l, distance |-> Round1(dist(l))]
                        ELSE [id |-> NULL, distance |-> 0]]
        near    == SelectSeq(all, LAMBDA x :
                        x.id # NULL /\ dist(x.id) <= radius_km * 1000)
    IN  IF located # {} /\ (user_lat = <<>> \/ user_lon = <<>>)
        THEN {[db |-> d, resp |-> ServerError("nearby_listings"),
               nearby |-> <<>>]}
        ELSE {[db |-> d, resp |-> Ok("nearby_listings"),
               nearby |-> SortByDistance(near)]}

\* column.ilike("%pattern%"): the pattern occurs in the text, case ignored; a
\* NULL text matches nothing.
Contains(pattern, text) ==
    \E i \in 1..(Len(text) - Len(pattern) + 1) :
        SubSeq(Lower(text), i, i + Len(pattern) - 1) = Lower(pattern)

\* POST /api/listings/by_location: the ids of the listings that match the
\* city, when one is given, and the area, when a non-blank one is given.
listings_by_location(d, city, area) ==
    LET ls == d.listings
    IN  {[db |-> d, resp |-> Ok("listings_by_location"),
          results |-> {l \in Ids(ls) :
                /\ city # <<>> => Contains(city, ls[l].city)
                /\ (area # <<>> /\ Strip(area) # <<>>)
                        => Contains(area, ls[l].area)}]}

\* ------------------------------------------------------------- chats
\* Mutant of Existing: the pair is matched in the given order only.
Existing_ordered(cs, user1_id, user2_id) ==
    {c \in Ids(cs) : cs[c].user1_id = user1_id /\ cs[c].user2_id = user2_id}

\* The filter of get_or_create_chat and start_chat: the chats whose two
\* participants are the pair, in either order.
Existing(cs, user1_id, user2_id) ==
    {c \in Ids(cs) :
        \/ cs[c].user1_id = user1_id /\ cs[c].user2_id = user2_id
        \/ cs[c].user1_id = user2_id /\ cs[c].user2_id = user1_id}

\* Mutant of get_or_create_chat: the lookup is skipped, a chat is always
\* inserted.
get_or_create_chat_always_inserts(cs, user1_id, user2_id) ==
    {[id |-> Len(cs) + 1, chats |-> Append(cs, NewChat(user1_id, user2_id))]}

\* get_or_create_chat(user1_id, user2_id) on the chat table cs: the possible
\* outcomes, each the returned chat id and the table after the call.  .first()
\* has no ORDER BY: with several matching rows any of them may be returned.
get_or_create_chat(cs, user1_id, user2_id) ==
    IF Existing(cs, user1_id, user2_id) # {}
    THEN {[id |-> c, chats |-> cs] : c \in Existing(cs, user1_id, user2_id)}
    ELSE {[id |-> Len(cs) + 1, chats |-> Append(cs, NewChat(user1_id, user2_id))]}

\* POST /api/chat/start: both user ids must be truthy; then the same lookup
\* and insert as get_or_create_chat, inline.
start_chat(d, user1_id, user2_id) ==
    IF user1_id = NULL \/ user2_id = NULL
    THEN {Result(d, Failed("start_chat"))}
    ELSE IF Existing(d.chats, user1_id, user2_id) # {}
    THEN {ResultChat(d, Ok("start_chat"), c) :
            c \in Existing(d.chats, user1_id, user2_id)}
    ELSE {ResultChat([d EXCEPT !.chats = Append(@, NewChat(user1_id, user2_id))],
                     Ok("start_chat"), Len(d.chats) + 1)}

\* ------------------------------------------------------------- rental requests
\* The keys of the JSON body a create call reads with data["..."]: a key that
\* is absent raises KeyError where it is first read.  trip_terms stands for
\* start_date, end_date, total_days and total_price.
ChatKeys == {"renter_id", "owner_id"}
RequestKeys == {"listing_id", "trip_terms", "pickup_method"}
SafeKeys == {"cnic_image", "selfie_image", "rules_agreed"}
\* The absent key of a body, if any.
MissingInputs == {"none"} \cup ChatKeys \cup RequestKeys
SafeMissingInputs == MissingInputs \cup SafeKeys

\* The values a create_safe body may give for its three safety keys: an image
\* is a URL or an empty text, the agreement is true or false.
\* The safety keys of a body with both images and the agreement.
CompleteSafeInputs ==
    {[cnic_image |-> "url", selfie_image |-> "url", rules_agreed |-> TRUE]}

\* The values a create_safe body may give for its three safety keys: an image
\* is a URL or an empty text, the agreement is true or false.  The complete
\* body, and the bodies that lack one of the three.
SafeInputs ==
    CompleteSafeInputs \cup
    {[cnic_image |-> "", selfie_image |-> "url", rules_agreed |-> TRUE],
     [cnic_image |-> "url", selfie_image |-> "", rules_agreed |-> TRUE],
     [cnic_image |-> "url", selfie_image |-> "url", rules_agreed |-> FALSE]}

\* POST /api/rent/create.  The chat is looked up or created (and committed)
\* before the remaining keys are read.
create_rental_request(d, listing_id, renter_id, owner_id, missing) ==
    IF missing \in ChatKeys
    THEN {Result(d, ServerError("create_rental_request"))}
    ELSE {IF missing \in RequestKeys
          THEN Result([d EXCEPT !.chats = g.chats],
                      ServerError("create_rental_request"))
          ELSE Result([d EXCEPT !.chats = g.chats,
                                !.requests = Append(@,
                                    NewRequest(listing_id, renter_id, owner_id, g.id))],
                      Ok("create_rental_request")) :
            g \in get_or_create_chat(d.chats, renter_id, owner_id)}

\* Mutant of active_rental: "ongoing" is left out of the status list.
active_rental_accepted_only(rs, renter_id) ==
    {r \in Ids(rs) : rs[r].renter_id = renter_id /\ rs[r].status = "accepted"}

\* The active-rental filter of create_safe_rent.
active_rental(rs, renter_id) ==
    {r \in Ids(rs) : rs[r].renter_id = renter_id
                        /\ rs[r].status \in {"accepted", "ongoing"}}

\* POST /api/rent/create_safe.  renter_id is read first, then the active-rental
\* check, then the chat, then the remaining keys.
create_safe_rent(d, listing_id, renter_id, owner_id, missing, safe) ==
    IF missing = "renter_id"
    THEN {Result(d, ServerError("create_safe_rent"))}
    ELSE IF active_rental(d.requests, renter_id) # {}
    THEN {Result(d, Response("create_safe_rent", 400, TRUE))}
    ELSE IF missing = "owner_id"
    THEN {Result(d, ServerError("create_safe_rent"))}
    ELSE {IF missing \in RequestKeys \cup SafeKeys
          THEN Result([d EXCEPT !.chats = g.chats], ServerError("create_safe_rent"))
          ELSE ResultChat([d EXCEPT !.chats = g.chats,
                                    !.requests = Append(@,
                                        NewSafeRequest(listing_id, renter_id,
                                                       owner_id, g.id, safe))],
                          Ok("create_safe_rent"), g.id) :
            g \in get_or_create_chat(d.chats, renter_id, owner_id)}

\* Listing.query.get(req.listing_id): None for NULL or a deleted listing.
ListingOf(ls, req) ==
    IF req.listing_id \in Ids(ls) THEN req.listing_id ELSE NULL

\* The status strings a decision may carry: the handler stores any string.
StatusInputs == {"accepted", "declined", "ongoing"}

\* The pickup details of a decision body: none of them, or
\* owner_pickup_address without owner_pickup_contact.
PickupInputs == {"none", "partial"}

\* POST /api/rent/decision.  There is no check that the request exists: on a
\* missing request req.status raises; on a missing listing listing.is_rented
\* raises; a body with owner_pickup_address but no owner_pickup_contact
\* raises.  Nothing is committed before the raise.
rent_decision(d, request_id, status, pickup) ==
    IF request_id \notin Ids(d.requests)
    THEN {Result(d, ServerError("rent_decision"))}
    ELSE LET listing == ListingOf(d.listings, d.requests[request_id])
         IN  IF \/ status \in {"accepted", "declined"} /\ listing = NULL
                \/ pickup = "partial"
             THEN {Result(d, ServerError("rent_decision"))}
             ELSE {Result(
                    [d EXCEPT
                        !.requests = [@ EXCEPT ![request_id].status = status],
                        !.listings =
                            IF status = "accepted"
                            THEN [@ EXCEPT ![listing].is_rented = TRUE]
                            ELSE IF status = "declined"
                            THEN [@ EXCEPT ![listing].is_rented = FALSE]
                            ELSE @],
                    Ok("rent_decision"))}

\* POST /api/rent/return
rent_return(d, request_id) ==
    IF request_id \notin Ids(d.requests)
    THEN {Result(d, Response("rent_return", 404, TRUE))}
    ELSE LET listing == ListingOf(d.listings, d.requests[request_id])
         IN  IF listing = NULL
             THEN {Result(d, ServerError("rent_return"))}
             ELSE {Result(
                    [d EXCEPT
                        !.requests = [@ EXCEPT ![request_id].status = "returned"],
                        !.listings = [@ EXCEPT ![listing].is_rented = FALSE]],
                    Ok("rent_return"))}

\* The user whose name a row of a view shows: the renter in the owner's view,
\* the owner in the renter's view.
PartyOf(req, party) == IF party = "renter" THEN req.renter_id ELSE req.owner_id

\* Mutant of AnnotateChats: the chat is looked up for the owner alone.
RECURSIVE AnnotateChats_of_owner_only(_, _, _, _, _, _)
AnnotateChats_of_owner_only(us, cs, ls, rs, ids, party) ==
    IF ids = {}
    THEN {[chats |-> cs, ok |-> TRUE, chat_ids |-> <<>>]}
    ELSE LET r == CHOOSE i \in ids : \A j \in ids : i <= j
         IN  IF ListingOf(ls, rs[r]) = NULL \/ PartyOf(rs[r], party) \notin Ids(us)
             THEN {[chats |-> cs, ok |-> FALSE, chat_ids |-> <<>>]}
             ELSE UNION {
                    {[out EXCEPT !.chat_ids = (r :> g.id) @@ @] :
                        out \in AnnotateChats_of_owner_only(
                                    us, g.chats, ls, rs, ids \ {r}, party)} :
                    g \in get_or_create_chat(cs, rs[r].owner_id, rs[r].owner_id)}

\* The rows of a view, built in turn: r.listing.title raises when the
\* request's listing is gone, r.renter.name or r.owner.name raises when that
\* user is gone; otherwise the row is annotated with
\* get_or_create_chat(r.owner_id, r.renter_id), which commits the chat it
\* creates.  The possible outcomes of annotating the rows ids: the chat table
\* after it, whether every row went through, and the chat id of each row.
RECURSIVE AnnotateChats(_, _, _, _, _, _)
AnnotateChats(us, cs, ls, rs, ids, party) ==
    IF ids = {}
    THEN {[chats |-> cs, ok |-> TRUE, chat_ids |-> <<>>]}
    ELSE LET r == CHOOSE i \in ids : \A j \in ids : i <= j
         IN  IF ListingOf(ls, rs[r]) = NULL \/ PartyOf(rs[r], party) \notin Ids(us)
             THEN {[chats |-> cs, ok |-> FALSE, chat_ids |-> <<>>]}
             ELSE UNION {
                    {[out EXCEPT !.chat_ids = (r :> g.id) @@ @] :
                        out \in AnnotateChats(us, g.chats, ls, rs, ids \ {r}, party)} :
                    g \in get_or_create_chat(cs, rs[r].owner_id, rs[r].renter_id)}

\* A result of a view: the rows' chat ids go with the response.
ResultRows(d, r, chat_ids) == [db |-> d, resp |-> r, chat_ids |-> chat_ids]

\* GET /api/rent/owner/<owner_id>
owner_rental_requests(d, owner_id) ==
    {ResultRows([d EXCEPT !.chats = out.chats],
                IF out.ok THEN Ok("owner_rental_requests")
                ELSE ServerError("owner_rental_requests"),
                out.chat_ids) :
        out \in AnnotateChats(d.users, d.chats, d.listings, d.requests,
                    {r \in Ids(d.requests) : d.requests[r].owner_id = owner_id},
                    "renter")}

\* GET /api/rent/my/<user_id>
my_rentals(d, user_id) ==
    {ResultRows([d EXCEPT !.chats = out.chats],
                IF out.ok THEN Ok("my_rentals") ELSE ServerError("my_rentals"),
                out.chat_ids) :
        out \in AnnotateChats(d.users, d.chats, d.listings, d.requests,
                    {r \in Ids(d.requests) : d.requests[r].renter_id = user_id},
                    "owner")}

\* RentalRequest.query.filter_by(listing_id=..., renter_id=...)
RequestsFor(rs, listing_id, renter_id) ==
    {r \in Ids(rs) : rs[r].listing_id = listing_id /\ rs[r].renter_id = renter_id}

\* Mutant of rent_status: the oldest request is reported.
rent_status_oldest(d, listing_id, user_id) ==
    LET found == RequestsFor(d.requests, listing_id, user_id)
        req == CHOOSE r \in found : \A q \in found : r <= q
    IN  IF found = {}
        THEN {[db |-> d, resp |-> Ok("rent_status"), exists |-> FALSE]}
        ELSE {[db |-> d, resp |-> Ok("rent_status"), exists |-> TRUE,
               status |-> d.requests[req].status, request_id |-> req,
               chat_id |-> d.requests[req].chat_id]}

\* GET /api/rent/status/<listing_id>/<user_id>: a query, nothing is written.
\* .order_by(RentalRequest.id.desc()).first() is the request of highest id.
rent_status(d, listing_id, user_id) ==
    LET found == RequestsFor(d.requests, listing_id, user_id)
        req == CHOOSE r \in found : \A q \in found : r >= q
    IN  IF found = {}
        THEN {[db |-> d, resp |-> Ok("rent_status"), exists |-> FALSE]}
        ELSE {[db |-> d, resp |-> Ok("rent_status"), exists |-> TRUE,
               status |-> d.requests[req].status, request_id |-> req,
               chat_id |-> d.requests[req].chat_id]}

\* POST /api/rent/check_request: the same query; the body carries the status
\* only.
check_rent_request(d, listing_id, renter_id) ==
    LET found == RequestsFor(d.requests, listing_id, renter_id)
        req == CHOOSE r \in found : \A q \in found : r >= q
    IN  IF found = {}
        THEN {[db |-> d, resp |-> Ok("check_rent_request"), exists |-> FALSE]}
        ELSE {[db |-> d, resp |-> Ok("check_rent_request"), exists |-> TRUE,
               status |-> d.requests[req].status]}

\* ------------------------------------------------------------- messages
\* How a send carries its content: a JSON text body, or a multipart body whose
\* audio upload to the blob store succeeds or raises.
SendInputs == {"text", "audio", "audio_upload_fails"}

\* Mutant of send_message: a failed audio upload is ignored and the message
\* is stored without its audio.
send_message_ignores_upload_error(d, chat_id, sender_id, kind) ==
    IF chat_id = NULL \/ sender_id = NULL
    THEN {Result(d, Failed("send_message"))}
    ELSE {Result([d EXCEPT !.messages = Append(@, NewMessage(chat_id, sender_id))],
                 Ok("send_message"))}

\* POST /api/chat/send.  chat_id and sender_id must be truthy; neither is
\* looked up.
send_message(d, chat_id, sender_id, kind) ==
    IF chat_id = NULL \/ sender_id = NULL \/ kind = "audio_upload_fails"
    THEN {Result(d, Failed("send_message"))}
    ELSE {Result([d EXCEPT !.messages = Append(@, NewMessage(chat_id, sender_id))],
                 Ok("send_message"))}

\* Mutant of get_messages: the fetch marks the messages of every chat.
get_messages_of_any_chat(d, chat_id, user_id) ==
    LET ms == d.messages
    IN  {Result([d EXCEPT !.messages = [m \in 1..Len(ms) |->
                    IF /\ user_id # NULL
                       /\ ms[m] # NoRow
                       /\ ms[m].sender_id # user_id
                       /\ ms[m].status = "sent"
                    THEN [ms[m] EXCEPT !.status = "delivered"]
                    ELSE ms[m]]],
                Ok("get_messages"))}

\* Mutant of get_messages: the fetch marks "delivered" whatever the status of
\* the message was.
get_messages_redelivers(d, chat_id, user_id) ==
    LET ms == d.messages
    IN  {Result([d EXCEPT !.messages = [m \in 1..Len(ms) |->
                    IF /\ user_id # NULL
                       /\ ms[m] # NoRow
                       /\ ms[m].chat_id = chat_id
                       /\ ms[m].sender_id # user_id
                    THEN [ms[m] EXCEPT !.status = "delivered"]
                    ELSE ms[m]]],
                Ok("get_messages"))}

\* GET /api/chat/messages/<chat_id>?user_id=: with a user id, the messages of
\* the chat that others sent and that are "sent" become "delivered".
get_messages(d, chat_id, user_id) ==
    LET ms == d.messages
    IN  {Result([d EXCEPT !.messages = [m \in 1..Len(ms) |->
                    IF /\ user_id # NULL
                       /\ ms[m] # NoRow
                       /\ ms[m].chat_id = chat_id
                       /\ ms[m].sender_id # user_id
                       /\ ms[m].status = "sent"
                    THEN [ms[m] EXCEPT !.status = "delivered"]
                    ELSE ms[m]]],
                Ok("get_messages"))}

\* Mutant of mark_read: only the messages that are "sent" are marked.
mark_read_sent_only(d, chat_id, user_id) ==
    LET ms == d.messages
    IN  {Result([d EXCEPT !.messages = [m \in 1..Len(ms) |->
                    IF /\ ms[m] # NoRow
                       /\ ms[m].chat_id = chat_id
                       /\ ms[m].sender_id # user_id
                       /\ ms[m].status = "sent"
                    THEN [ms[m] EXCEPT !.status = "seen", !.is_read = TRUE]
                    ELSE ms[m]]],
                Ok("mark_read"))}

\* Mutant of mark_read: the status is set, the read flag is not.
mark_read_without_flag(d, chat_id, user_id) ==
    LET ms == d.messages
    IN  {Result([d EXCEPT !.messages = [m \in 1..Len(ms) |->
                    IF /\ ms[m] # NoRow
                       /\ ms[m].chat_id = chat_id
                       /\ ms[m].sender_id # user_id
                       /\ ms[m].status \in {"sent", "delivered"}
                    THEN [ms[m] EXCEPT !.status = "seen"]
                    ELSE ms[m]]],
                Ok("mark_read"))}

\* POST /api/chat/mark_read
mark_read(d, chat_id, user_id) ==
    LET ms == d.messages
    IN  {Result([d EXCEPT !.messages = [m \in 1..Len(ms) |->
                    IF /\ ms[m] # NoRow
                       /\ ms[m].chat_id = chat_id
                       /\ ms[m].sender_id # user_id
                       /\ ms[m].status \in {"sent", "delivered"}
                    THEN [ms[m] EXCEPT !.status = "seen", !.is_read = TRUE]
                    ELSE ms[m]]],
                Ok("mark_read"))}

\* The chats a user belongs to.
ChatsOf(cs, user_id) ==
    {c \in Ids(cs) : cs[c].user1_id = user_id \/ cs[c].user2_id = user_id}

\* Mutant of unread_count: the messages the user sent are counted too.
unread_count_with_own(ms, chat_id, user_id) ==
    Cardinality({m \in Ids(ms) : ms[m].chat_id = chat_id /\ ms[m].is_read = FALSE})

\* The unread_count query of chat_list: the messages of the chat that others
\* sent and that are not read.
unread_count(ms, chat_id, user_id) ==
    Cardinality({m \in Ids(ms) :
        /\ ms[m].chat_id = chat_id
        /\ ms[m].sender_id # user_id
        /\ ms[m].is_read = FALSE})

\* GET /api/chat/list/<user_id>: one row per chat of the user, with its unread
\* count; other.id raises when the other participant is no user.
chat_list(d, user_id) ==
    LET mine == ChatsOf(d.chats, user_id)
        other(c) == IF d.chats[c].user1_id = user_id
                    THEN d.chats[c].user2_id ELSE d.chats[c].user1_id
    IN  IF \E c \in mine : other(c) \notin Ids(d.users)
        THEN {Result(d, ServerError("chat_list"))}
        ELSE {[db |-> d, resp |-> Ok("chat_list"),
               chats |-> [c \in mine |->
                    [other_user |-> other(c),
                     unread_count |-> unread_count(d.messages, c, user_id)]]]}

\* GET /api/chat/count/<user_id>
chat_count(d, user_id) ==
    {[db |-> d, resp |-> Ok("chat_count"),
      count |-> Cardinality(ChatsOf(d.chats, user_id))]}

\* GET /api/unread_chats/<user_id>: the unread messages others sent, joined
\* with the chats the user belongs to.
unread_chats(d, user_id) ==
    {[db |-> d, resp |-> Ok("unread_chats"),
      count |-> Cardinality({m \in Ids(d.messages) :
                    /\ d.messages[m].sender_id # user_id
                    /\ d.messages[m].is_read = FALSE
                    /\ d.messages[m].chat_id \in ChatsOf(d.chats, user_id)})]}

\* ------------------------------------------------------------- admin deletion
\* Query.delete() on the rows gone of a table: a bulk DELETE, no relationship
\* of the rows is touched.
BulkDelete(table, gone) ==
    [i \in 1..Len(table) |-> IF i \in gone THEN NoRow ELSE table[i]]

\* Step 1: the listings of the user.
DeleteListingsOf(d, user_id) ==
    [d EXCEPT !.listings = BulkDelete(@,
        {l \in Ids(d.listings) : d.listings[l].user_id = user_id})]

\* Step 2: the messages the user sent.
DeleteMessagesOf(d, user_id) ==
    [d EXCEPT !.messages = BulkDelete(@,
        {m \in Ids(d.messages) : d.messages[m].sender_id = user_id})]

\* Step 3: the messages of the chats the user is in.
DeleteChatMessagesOf(d, user_id) ==
    [d EXCEPT !.messages = BulkDelete(@,
        {m \in Ids(d.messages) :
            d.messages[m].chat_id \in ChatsOf(d.chats, user_id)})]

\* Step 4: the chats the user is in.
DeleteChatsOf(d, user_id) ==
    [d EXCEPT !.chats = BulkDelete(@, ChatsOf(d.chats, user_id))]

\* Step 5: the rental requests the user is renter or owner of.
DeleteRequestsOf(d, user_id) ==
    [d EXCEPT !.requests = BulkDelete(@,
        {r \in Ids(d.requests) : \/ d.requests[r].renter_id = user_id
                                  \/ d.requests[r].owner_id = user_id})]

\* Step 6: db.session.delete(user)
DeleteUser(d, user_id) == [d EXCEPT !.users[user_id] = NoRow]

\* A rental request still refers to a row that the step from d to after
\* deletes.  A database that enforces foreign keys (PostgreSQL) rejects the
\* DELETE; SQLite, with its default settings, does not.
BreaksForeignKey(d, after) ==
    \E r \in Ids(after.requests) :
        \/ /\ after.requests[r].listing_id \in Ids(d.listings)
           /\ after.requests[r].listing_id \notin Ids(after.listings)
        \/ /\ after.requests[r].chat_id \in Ids(d.chats)
           /\ after.requests[r].chat_id \notin Ids(after.chats)

\* A result that ends in an exception raised by step number step.
ResultFailedAt(d, r, step) == [db |-> d, resp |-> r, step |-> step]

\* Mutant of Rollback: what the steps before the failure deleted stays
\* deleted.
Rollback_keeps_partial(d, partial) == partial

\* The request ends before db.session.commit(): the session is dropped and
\* the database is as it was when the request started, whatever the steps so
\* far did (partial).
Rollback(d, partial) == d

\* POST /admin/user/delete/<user_id>: six steps and one commit.  Where a step
\* would break a foreign key the step raises if the database enforces foreign
\* keys and goes through if it does not.
admin_delete_user(d, user_id) ==
    IF user_id \notin Ids(d.users)
    THEN {Result(d, NotFound("admin_delete_user"))}
    ELSE LET d1 == DeleteListingsOf(d, user_id)
             d2 == DeleteMessagesOf(d1, user_id)
             d3 == DeleteChatMessagesOf(d2, user_id)
             d4 == DeleteChatsOf(d3, user_id)
             d5 == DeleteRequestsOf(d4, user_id)
             d6 == DeleteUser(d5, user_id)
         IN  {Result(d6, Redirect("admin_delete_user"))}
                \cup (IF BreaksForeignKey(d, d1)
                      THEN {ResultFailedAt(Rollback(d, d),
                                ServerError("admin_delete_user"), 1)}
                      ELSE IF BreaksForeignKey(d3, d4)
                      THEN {ResultFailedAt(Rollback(d, d3),
                                ServerError("admin_delete_user"), 4)}
                      ELSE {})

\* ------------------------------------------------------------- specifications
\* One handler run: one of its results becomes the state, within max rows.
\* A run that leaves the database as it was leaves no trace.
Handle(results, max) ==
    \E o \in results :
        /\ Rows(o.db) <= max
        /\ users' = o.db.users
        /\ calls' = calls
        /\ listings' = o.db.listings
        /\ chats' = o.db.chats
        /\ requests' = o.db.requests
        /\ messages' = o.db.messages
        /\ last' = IF o.db = DB THEN last ELSE o.resp

\* The user_id of the created listings where no handler reads it (only the
\* admin deletion of a user does).
OwnerInputs == {1}

\* The location of a create body that has none of the four optional keys.
NoPlace == [latitude |-> <<>>, longitude |-> <<>>, city |-> <<>>, area |-> <<>>]
NoPlaceInputs == {NoPlace}

\* The ids a request may name for a table: its rows, and one id of no row.
IdInputs(table) == 1..(Len(table) + 1)

\* The handlers of listings, chats and rental requests.
Next ==
    \/ \E u \in OwnerInputs, p \in NoPlaceInputs :
            Handle(create_listing(DB, u, p), MaxRows)
    \/ \E l \in IdInputs(listings) : Handle(delete_listing(DB, l), MaxRows)
    \/ \E a, b \in UserIds \cup {NULL} : Handle(start_chat(DB, a, b), MaxRows)
    \/ \E l \in Ids(listings), a, b \in UserIds, m \in MissingInputs :
            Handle(create_rental_request(DB, l, a, b, m), MaxRows)
    \/ \E r \in IdInputs(requests) : Handle(rent_return(DB, r), MaxRows)
    \/ \E r \in IdInputs(requests), s \in StatusInputs, p \in PickupInputs :
            Handle(rent_decision(DB, r, s, p), MaxRows)
    \/ \E u \in UserIds : Handle(owner_rental_requests(DB, u), MaxRows)
    \/ \E u \in UserIds : Handle(my_rentals(DB, u), MaxRows)
    \/ \E l \in Ids(listings), u \in UserIds : Handle(rent_status(DB, l, u), MaxRows)
    \/ \E l \in Ids(listings), u \in UserIds :
            Handle(check_rent_request(DB, l, u), MaxRows)

Spec == Init /\ [][Next]_vars

\* The safe rent flow: listings, requests of create_safe with every kind of
\* safety input, and the decisions and returns that move their status.
NextSafe ==
    \/ \E u \in OwnerInputs, p \in NoPlaceInputs :
            Handle(create_listing(DB, u, p), MaxSafeRows)
    \/ \E l \in Ids(listings), a \in UserIds, b \in OwnerInputs,
          m \in {"none"} \cup SafeKeys, s \in SafeInputs :
            Handle(create_safe_rent(DB, l, a, b, m, s), MaxSafeRows)
    \/ \E r \in IdInputs(requests), s \in {"accepted", "ongoing"} :
            Handle(rent_decision(DB, r, s, "none"), MaxSafeRows)
    \/ \E r \in IdInputs(requests) : Handle(rent_return(DB, r), MaxSafeRows)

SpecSafe == Init /\ [][NextSafe]_vars

\* A place on the meridian of longitude 1, at the given latitude.
Place(latitude, city, area) ==
    [latitude |-> <<latitude>>, longitude |-> <<1>>, city |-> city, area |-> area]

\* The locations of the created listings: none, and latitudes 0, 40 m, 80 m,
\* 15.00 km and 15.12 km north of the equator.
PlaceInputs ==
    {NoPlace,
     [NoPlace EXCEPT !.city = <<"A", "b">>, !.area = <<"b">>],
     Place(0, <<"a">>, <<>>),
     Place(1, <<"a", "b">>, <<"a">>),
     Place(2, <<"b">>, <<>>),
     Place(375, <<"a">>, <<"b">>),
     Place(378, <<>>, <<>>)}

\* The coordinates of a nearby search: absent, or latitude 40 m or 80 m on the
\* meridian of the listings.
PointInputs == {<<<<>>, <<>>>>, <<<<1>>, <<1>>>>, <<<<2>>, <<1>>>>}
\* The city and the area of a location search.
CityInputs == {<<>>, <<"a">>, <<"B">>}
AreaInputs == {<<>>, <<" ">>, <<"b">>}

\* Browsing: listings with locations, the requests and decisions that set
\* and clear is_rented, and the three public queries.
NextBrowse ==
    \/ \E u \in OwnerInputs, p \in PlaceInputs :
            Handle(create_listing(DB, u, p), MaxBrowseRows)
    \/ \E l \in Ids(listings) :
            Handle(create_rental_request(DB, l, 2, 1, "none"), MaxBrowseRows)
    \/ \E r \in Ids(requests), s \in {"accepted", "declined"} :
            Handle(rent_decision(DB, r, s, "none"), MaxBrowseRows)
    \/ Handle({[db |-> DB, resp |-> Ok("get_listings"),
                 listings |-> get_listings(listings)]}, MaxBrowseRows)
    \/ \E p \in PointInputs :
            Handle(nearby_listings(DB, p[1], p[2]), MaxBrowseRows)
    \/ \E c \in CityInputs, a \in AreaInputs :
            Handle(listings_by_location(DB, c, a), MaxBrowseRows)

SpecBrowse == Init /\ [][NextBrowse]_vars

\* The handlers of Spec and the message handlers.
NextAll ==
    \/ \E u \in OwnerInputs, p \in NoPlaceInputs :
            Handle(create_listing(DB, u, p), MaxAllRows)
    \/ \E l \in IdInputs(listings) : Handle(delete_listing(DB, l), MaxAllRows)
    \/ \E a, b \in UserIds \cup {NULL} : Handle(start_chat(DB, a, b), MaxAllRows)
    \/ \E l \in Ids(listings), a, b \in UserIds, m \in MissingInputs :
            Handle(create_rental_request(DB, l, a, b, m), MaxAllRows)
    \/ \E l \in Ids(listings), a, b \in UserIds, m \in SafeMissingInputs,
          s \in CompleteSafeInputs :
            Handle(create_safe_rent(DB, l, a, b, m, s), MaxAllRows)
    \/ \E r \in IdInputs(requests) : Handle(rent_return(DB, r), MaxAllRows)
    \/ \E r \in IdInputs(requests), s \in StatusInputs, p \in PickupInputs :
            Handle(rent_decision(DB, r, s, p), MaxAllRows)
    \/ \E u \in UserIds : Handle(owner_rental_requests(DB, u), MaxAllRows)
    \/ \E u \in UserIds : Handle(my_rentals(DB, u), MaxAllRows)
    \/ \E l \in Ids(listings), u \in UserIds :
            Handle(rent_status(DB, l, u), MaxAllRows)
    \/ \E l \in Ids(listings), u \in UserIds :
            Handle(check_rent_request(DB, l, u), MaxAllRows)
    \/ \E c \in IdInputs(chats) \cup {NULL}, u \in UserIds \cup {NULL},
          k \in SendInputs : Handle(send_message(DB, c, u, k), MaxAllRows)
    \/ \E c \in IdInputs(chats), u \in UserIds \cup {NULL} :
            Handle(get_messages(DB, c, u), MaxAllRows)
    \/ \E c \in IdInputs(chats), u \in UserIds :
            Handle(mark_read(DB, c, u), MaxAllRows)

SpecAll == Init /\ [][NextAll]_vars

\* The user table after two people have signed up.
TwoUsers ==
    <<NewUser(<<"a">>, <<"1">>, generate_password_hash("p")),
      NewUser(<<"b">>, <<"2">>, generate_password_hash("q"))>>

\* Two users have signed up; nothing else has happened.
InitChat ==
    /\ users = TwoUsers
    /\ calls = NoCalls
    /\ listings = <<>>
    /\ chats = <<>>
    /\ requests = <<>>
    /\ messages = <<>>
    /\ last = Ok("api_signup")

\* The handlers of the chats and their messages.
NextChat ==
    \/ \E a, b \in UserIds \cup {NULL} : Handle(start_chat(DB, a, b), MaxChatRows)
    \/ \E c \in IdInputs(chats) \cup {NULL}, u \in UserIds \cup {NULL},
          k \in SendInputs : Handle(send_message(DB, c, u, k), MaxChatRows)
    \/ \E c \in IdInputs(chats), u \in UserIds \cup {NULL} :
            Handle(get_messages(DB, c, u), MaxChatRows)
    \/ \E c \in IdInputs(chats), u \in UserIds \cup {NULL} :
            Handle(mark_read(DB, c, u), MaxChatRows)
    \/ \E u \in UserIds : Handle(chat_list(DB, u), MaxChatRows)
    \/ \E u \in UserIds : Handle(chat_count(DB, u), MaxChatRows)
    \/ \E u \in UserIds : Handle(unread_chats(DB, u), MaxChatRows)

SpecChat == InitChat /\ [][NextChat]_vars

\* The handlers that make the rows an admin deletion removes, and the
\* deletion; two users have signed up.
NextAdmin ==
    \/ \E u \in UserIds, p \in NoPlaceInputs :
            Handle(create_listing(DB, u, p), MaxAdminRows)
    \/ \E l \in Ids(listings), a, b \in UserIds :
            Handle(create_rental_request(DB, l, a, b, "none"), MaxAdminRows)
    \/ \E c \in Ids(chats), u \in UserIds :
            Handle(send_message(DB, c, u, "text"), MaxAdminRows)
    \/ \E u \in IdInputs(users) : Handle(admin_delete_user(DB, u), MaxAdminRows)

SpecAdmin == InitChat /\ [][NextAdmin]_vars

\* The fields of signup and login bodies: "" and <<>> are a key that is
\* absent or empty.
NameInputs == {"n", ""}
EmailInputs == {<<"a">>, <<"A">>, <<" ", "b">>, <<>>}
PhoneInputs == {<<"1">>, <<"2", " ">>, <<>>}
PasswordInputs == {"p", "q", ""}

\* The handlers of the user table.
NextUsers ==
    \/ \E n \in NameInputs, e \in EmailInputs, p \in PhoneInputs,
          w \in PasswordInputs : Handle(api_signup(DB, n, e, p, w), MaxUserRows)
    \/ \E e \in EmailInputs, w \in PasswordInputs :
            Handle(api_login(DB, e, w), MaxUserRows)
    \/ \E u \in IdInputs(users) : Handle(admin_block_user(DB, u), MaxUserRows)
    \/ \E u \in IdInputs(users) : Handle(admin_unblock_user(DB, u), MaxUserRows)
    \/ \E u \in IdInputs(users) : Handle(admin_delete_user(DB, u), MaxUserRows)

SpecUsers == Init /\ [][NextUsers]_vars

\* The handlers that make and remove what the owner's and the renter's view
\* read, and the two views; two users have signed up.
NextViews ==
    \/ \E u \in OwnerInputs, p \in NoPlaceInputs :
            Handle(create_listing(DB, u, p), MaxViewRows)
    \/ \E l \in IdInputs(listings) : Handle(delete_listing(DB, l), MaxViewRows)
    \/ \E a, b \in UserIds : Handle(start_chat(DB, a, b), MaxViewRows)
    \/ \E l \in Ids(listings), a, b \in UserIds :
            Handle(create_rental_request(DB, l, a, b, "none"), MaxViewRows)
    \/ \E u \in UserIds : Handle(owner_rental_requests(DB, u), MaxViewRows)
    \/ \E u \in UserIds : Handle(my_rentals(DB, u), MaxViewRows)
    \/ \E u \in IdInputs(users) : Handle(admin_delete_user(DB, u), MaxViewRows)

SpecViews == InitChat /\ [][NextViews]_vars

\* ------------------------------------------------------------- interleaved calls
\* Two requests served at the same time (two workers, each with its own
\* database session).
Workers == {1, 2}

\* The handlers that find or create a chat.
FindOrCreateOps == {"get_or_create_chat", "start_chat"}

\* A worker that serves no request.
Idle == [pc |-> "idle"]

\* No chat has been created, both workers are idle.
InitRace ==
    /\ users = <<>>
    /\ listings = <<>>
    /\ chats = <<>>
    /\ requests = <<>>
    /\ messages = <<>>
    /\ last = Ok("none")
    /\ calls = [w \in Workers |-> Idle]

\* The lookup of a find-or-create call, Chat.query.filter(...).first(): the
\* worker remembers the chat it read, or NULL.
Lookup(w, op, user1_id, user2_id) ==
    /\ calls[w].pc = "idle"
    /\ \E c \in IF Existing(chats, user1_id, user2_id) = {}
                THEN {NULL} ELSE Existing(chats, user1_id, user2_id) :
        calls' = [calls EXCEPT ![w] =
                    [pc |-> "looked_up", op |-> op, user1_id |-> user1_id,
                     user2_id |-> user2_id, chat |-> c, chat_id |-> NULL]]
    /\ UNCHANGED <<users, listings, chats, requests, messages, last>>

\* Mutant of InsertChat: the insert looks the pair up again and adds nothing
\* when a chat is there.
InsertChat_unless_exists(cs, user1_id, user2_id) ==
    IF Existing(cs, user1_id, user2_id) # {}
    THEN cs
    ELSE Append(cs, NewChat(user1_id, user2_id))

\* db.session.add(chat); db.session.commit()
InsertChat(cs, user1_id, user2_id) == Append(cs, NewChat(user1_id, user2_id))

\* What follows the lookup: "if not chat:" the insert and its commit; then
\* the chat id is returned.
InsertOrReturn(w) ==
    /\ calls[w].pc = "looked_up"
    /\ IF calls[w].chat = NULL
       THEN /\ Len(chats) < MaxRaceChats
            /\ chats' = InsertChat(chats, calls[w].user1_id, calls[w].user2_id)
            /\ calls' = [calls EXCEPT ![w] =
                            [@ EXCEPT !.pc = "done", !.chat_id = Len(chats')]]
            /\ last' = Ok(calls[w].op)
       ELSE /\ calls' = [calls EXCEPT ![w] =
                            [@ EXCEPT !.pc = "done", !.chat_id = calls[w].chat]]
            /\ UNCHANGED <<chats, last>>
    /\ UNCHANGED <<users, listings, requests, messages>>

\* The response is sent, the worker is free for the next request.
Respond(w) ==
    /\ calls[w].pc = "done"
    /\ calls' = [calls EXCEPT ![w] = Idle]
    /\ UNCHANGED <<users, listings, chats, requests, messages, last>>

NextRace ==
    \/ \E w \in Workers, op \in FindOrCreateOps, a, b \in UserIds :
            Lookup(w, op, a, b)
    \/ \E w \in Workers : InsertOrReturn(w)
    \/ \E w \in Workers : Respond(w)

SpecRace == InitRace /\ [][NextRace]_vars

\* ------------------------------------------------------------- claims
\* A result that reports no failure.
Succeeded(o) == o.resp.code = 200 /\ ~o.resp.error

\* The requests of a renter that are "accepted" or "ongoing".
ActiveOf(rs, renter_id) ==
    {r \in Ids(rs) : rs[r].renter_id = renter_id
                        /\ (rs[r].status = "accepted" \/ rs[r].status = "ongoing")}

\* The chats between two users, whichever of them is user1.
ChatsOfPair(cs, a, b) ==
    {c \in Ids(cs) : {cs[c].user1_id, cs[c].user2_id} = {a, b}}

\* C1: in every reachable state no renter has more than one rental request
\* whose status is "accepted" or "ongoing".
C1_OneActiveRentalPerRenter ==
    \A u \in UserIds : Cardinality(ActiveOf(requests, u)) <= 1

\* C2: create_safe for a renter who holds an "accepted" or "ongoing" request
\* answers the conflict error (400) and persists no request and no chat; for a
\* renter who holds none, a complete create_safe succeeds and persists one
\* new request of that renter.
C2_SafeCreateAdmission ==
    \A l \in Ids(listings), a, b \in UserIds,
       m \in SafeMissingInputs \ {"renter_id"} :
        \A s \in SafeInputs : \A o \in create_safe_rent(DB, l, a, b, m, s) :
            IF ActiveOf(requests, a) # {}
            THEN /\ o.resp.code = 400 /\ o.resp.error
                 /\ o.db.requests = requests
                 /\ o.db.chats = chats
            ELSE m = "none" =>
                    /\ Succeeded(o)
                    /\ Len(o.db.requests) = Len(requests) + 1
                    /\ SubSeq(o.db.requests, 1, Len(requests)) = requests
                    /\ o.db.requests[Len(requests) + 1].renter_id = a

\* C2 witness: the last change was a successful create_safe of a renter who
\* has an earlier request that is "returned".
C2_Witness ==
    /\ last = Ok("create_safe_rent")
    /\ \E r \in Ids(requests) :
            /\ r < Len(requests)
            /\ requests[r].renter_id = requests[Len(requests)].renter_id
            /\ requests[r].status = "returned"

\* C3: a decision "accepted" that succeeds leaves the request's listing out of
\* the public feed, a decision "declined" or a return that succeeds leaves it
\* in the feed; the feed is exactly the listings with is_rented false.
C3_DecisionDrivesFeed ==
    /\ get_listings(listings) = {l \in Ids(listings) : ~listings[l].is_rented}
    /\ \A r \in Ids(requests) :
        LET l == requests[r].listing_id
        IN  /\ \A p \in PickupInputs :
                /\ \A o \in rent_decision(DB, r, "accepted", p) :
                        Succeeded(o) => l \notin get_listings(o.db.listings)
                /\ \A o \in rent_decision(DB, r, "declined", p) :
                        Succeeded(o) => l \in get_listings(o.db.listings)
            /\ \A o \in rent_return(DB, r) :
                    Succeeded(o) => l \in get_listings(o.db.listings)

\* C3 witness: the last change was a decision, and an accepted request's
\* listing exists and is not in the feed.
C3_Witness ==
    /\ last = Ok("rent_decision")
    /\ \E r \in Ids(requests) :
            /\ requests[r].status = "accepted"
            /\ requests[r].listing_id \in Ids(listings)
            /\ requests[r].listing_id \notin get_listings(listings)

\* The edges of the request state machine.
StatusEdges ==
    {<<"pending", "accepted">>, <<"pending", "declined">>,
     <<"accepted", "returned">>}

\* C4: in every step a request's status stays as it is or moves along one of
\* pending->accepted, pending->declined, accepted->returned.
C4_StatusMovesAlongEdges ==
    [][\A r \in Ids(requests) :
            r \in Ids(requests') =>
                \/ requests'[r].status = requests[r].status
                \/ <<requests[r].status, requests'[r].status>> \in StatusEdges]_vars

C6_FindOrCreateSymmetric ==
    \A a, b \in UserIds :
        /\ \A g1 \in get_or_create_chat(chats, a, b) :
            /\ \A g2 \in get_or_create_chat(g1.chats, b, a) :
                /\ g2.id = g1.id /\ g2.chats = g1.chats
                /\ \A g3 \in get_or_create_chat(g2.chats, a, b) :
                        g3.id = g1.id /\ g3.chats = g1.chats
            /\ \A o \in start_chat([DB EXCEPT !.chats = g1.chats], b, a) :
                    o.chat_id = g1.id /\ o.db.chats = g1.chats
        /\ \A o1 \in start_chat(DB, a, b) :
            /\ \A o2 \in start_chat(o1.db, b, a) :
                    o2.chat_id = o1.chat_id /\ o2.db = o1.db
            /\ \A g \in get_or_create_chat(o1.db.chats, b, a) :
                    g.id = o1.chat_id /\ g.chats = o1.db.chats

\* C6 witness: the last change was a start_chat, and two distinct users have
\* a chat.
C6_Witness ==
    /\ last = Ok("start_chat")
    /\ \E c \in Ids(chats) : chats[c].user1_id # chats[c].user2_id

\* C7: a create or create_safe whose body lacks a required key changes
\* neither the rental requests nor the chats.
C7_MissingFieldMutatesNothing ==
    [][(last'.op \in {"create_rental_request", "create_safe_rent"}
            /\ last'.code # 200)
        => (requests' = requests /\ chats' = chats)]_vars

\* C8: a decision or a return whose request id matches no request answers
\* not-found (404) and leaves the database as it is.
C8_UnknownRequestIsNotFound ==
    \A r \in IdInputs(requests) \ Ids(requests) :
        /\ \A s \in StatusInputs, p \in PickupInputs :
            \A o \in rent_decision(DB, r, s, p) :
                o.resp.code = 404 /\ o.db = DB
        /\ \A o \in rent_return(DB, r) : o.resp.code = 404 /\ o.db = DB

\* C9: a create or create_safe that succeeds persists exactly one new request,
\* "pending", of the given listing, renter and owner, whose chat id is the one
\* chat of the (renter, owner) pair, and changes no listing.
C9_CreateEffect ==
    \A l \in Ids(listings), a, b \in UserIds, m \in SafeMissingInputs :
        \A o \in (IF m \in MissingInputs
                  THEN create_rental_request(DB, l, a, b, m) ELSE {})
                    \cup UNION {create_safe_rent(DB, l, a, b, m, s) :
                                    s \in CompleteSafeInputs} :
            Succeeded(o) =>
                LET n == Len(requests) + 1
                    new == o.db.requests[n]
                IN  /\ Len(o.db.requests) = n
                    /\ SubSeq(o.db.requests, 1, n - 1) = requests
                    /\ new.status = "pending"
                    /\ new.listing_id = l
                    /\ new.renter_id = a
                    /\ new.owner_id = b
                    /\ ChatsOfPair(o.db.chats, a, b) = {new.chat_id}
                    /\ o.db.listings = listings

\* C9 witness: the last change was a successful create, and the newest request
\* is pending with the chat of its renter and owner.
C9_Witness ==
    /\ last = Ok("create_rental_request")
    /\ Len(requests) > 0
    /\ requests[Len(requests)].status = "pending"
    /\ requests[Len(requests)].chat_id
            \in ChatsOfPair(chats, requests[Len(requests)].renter_id,
                            requests[Len(requests)].owner_id)

\* C10: in every step, the is_rented flag of a listing that exists before and
\* after changes only if the step is a decision or a return, and a listing the
\* step creates has is_rented false.
C10_OnlyLifecycleChangesIsRented ==
    [][/\ \A l \in Ids(listings) \cap Ids(listings') :
            listings'[l].is_rented # listings[l].is_rented
                => last'.op \in {"rent_decision", "rent_return"}
       /\ \A l \in Ids(listings') \ (1..Len(listings)) :
            ~listings'[l].is_rented]_vars

\* C10 witness: the last change was a message sent while a listing created
\* before it exists, not rented.
C10_Witness ==
    /\ last = Ok("send_message")
    /\ \E l \in Ids(listings) : ~listings[l].is_rented

\* The messages of chat c that user u is the addressee of: sent by another.
AddressedTo(ms, c, u) ==
    {m \in Ids(ms) : ms[m].chat_id = c /\ ms[m].sender_id # u}

\* C11: fetching the messages of chat c as user u turns to "delivered" every
\* message of c that another user sent and that is "sent", changes no other
\* message, and a second identical fetch changes nothing.
C11_FetchDelivers ==
    \A c \in IdInputs(chats), u \in UserIds :
        \A o \in get_messages(DB, c, u) :
            /\ Succeeded(o)
            /\ Len(o.db.messages) = Len(messages)
            /\ \A m \in Ids(messages) :
                IF m \in AddressedTo(messages, c, u) /\ messages[m].status = "sent"
                THEN o.db.messages[m] = [messages[m] EXCEPT !.status = "delivered"]
                ELSE o.db.messages[m] = messages[m]
            /\ \A o2 \in get_messages(o.db, c, u) : o2.db = o.db

\* C11 witness: the last change was a fetch, and one chat holds a message
\* that became "delivered" and a message of the fetching user still "sent".
C11_Witness ==
    /\ last = Ok("get_messages")
    /\ \E m1, m2 \in Ids(messages) :
        /\ messages[m1].chat_id = messages[m2].chat_id
        /\ messages[m1].sender_id # messages[m2].sender_id
        /\ messages[m1].status = "delivered"
        /\ messages[m2].status = "sent"

\* C12: mark_read(c, u) turns to "seen", with the read flag set, every message
\* of chat c that another user sent and that is "sent" or "delivered", and
\* leaves the messages u sent and the messages of other chats as they are.
C12_MarkReadSeesOthers ==
    \A c \in IdInputs(chats), u \in UserIds :
        \A o \in mark_read(DB, c, u) :
            /\ Succeeded(o)
            /\ Len(o.db.messages) = Len(messages)
            /\ \A m \in Ids(messages) :
                /\ (m \in AddressedTo(messages, c, u)
                        /\ messages[m].status \in {"sent", "delivered"})
                    => /\ o.db.messages[m].status = "seen"
                       /\ o.db.messages[m].is_read = TRUE
                /\ (messages[m].sender_id = u \/ messages[m].chat_id # c)
                    => o.db.messages[m] = messages[m]

\* C12 witness: the last change was a mark_read after a fetch: a message that
\* was "delivered" is "seen" and read, next to an unread message of the same
\* chat that the reader sent.
C12_Witness ==
    /\ last = Ok("mark_read")
    /\ \E m1, m2 \in Ids(messages) :
        /\ messages[m1].chat_id = messages[m2].chat_id
        /\ messages[m1].sender_id # messages[m2].sender_id
        /\ messages[m1].status = "seen" /\ messages[m1].is_read
        /\ messages[m2].status # "seen" /\ ~messages[m2].is_read

\* C13: a send that succeeds persists exactly one new message, "sent" and
\* unread; a send whose audio upload fails reports failure and leaves the
\* messages as they are.
C13_SendPersistsOneOrNone ==
    \A c \in IdInputs(chats) \cup {NULL}, u \in UserIds \cup {NULL},
       k \in SendInputs :
        \A o \in send_message(DB, c, u, k) :
            /\ Succeeded(o) =>
                /\ Len(o.db.messages) = Len(messages) + 1
                /\ SubSeq(o.db.messages, 1, Len(messages)) = messages
                /\ o.db.messages[Len(messages) + 1].status = "sent"
                /\ o.db.messages[Len(messages) + 1].is_read = FALSE
                /\ o.db.messages[Len(messages) + 1].chat_id = c
                /\ o.db.messages[Len(messages) + 1].sender_id = u
            /\ k = "audio_upload_fails" =>
                /\ ~Succeeded(o)
                /\ o.db.messages = messages

\* C13 witness: the last change was a send, and the newest message is "sent"
\* and unread after an older one has been seen.
C13_Witness ==
    /\ last = Ok("send_message")
    /\ Len(messages) >= 2
    /\ messages[Len(messages)].status = "sent"
    /\ ~messages[Len(messages)].is_read
    /\ messages[1].status = "seen"

\* The unread messages of chat c addressed to user u.
UnreadOf(ms, c, u) == {m \in AddressedTo(ms, c, u) : ~ms[m].is_read}

\* The sum of the unread counts of user u over the chats cset.
RECURSIVE SumUnread(_, _, _)
SumUnread(ms, cset, u) ==
    IF cset = {} THEN 0
    ELSE LET c == CHOOSE x \in cset : TRUE
         IN  Cardinality(UnreadOf(ms, c, u)) + SumUnread(ms, cset \ {c}, u)

\* C14: for every user u, the chat list of u has one row per chat of u whose
\* unread_count is the number of unread messages of that chat that another
\* user sent; the total unread count of u is the sum of these counts over the
\* chats of u; and after mark_read(c, u) the count of chat c for u is 0.
C14_UnreadCounts ==
    \A u \in UserIds :
        LET mine == {c \in Ids(chats) : u \in {chats[c].user1_id, chats[c].user2_id}}
        IN  /\ \A o \in chat_list(DB, u) :
                Succeeded(o) =>
                    /\ DOMAIN o.chats = mine
                    /\ \A c \in mine :
                        o.chats[c].unread_count = Cardinality(UnreadOf(messages, c, u))
            /\ \A o \in unread_chats(DB, u) :
                    o.count = SumUnread(messages, mine, u)
            /\ \A c \in IdInputs(chats) :
                \A o \in mark_read(DB, c, u) :
                    /\ Cardinality(UnreadOf(o.db.messages, c, u)) = 0
                    /\ \A o2 \in chat_list(o.db, u) :
                        (Succeeded(o2) /\ c \in mine) => o2.chats[c].unread_count = 0

\* C14 witness: the last change was a mark_read by one participant of a chat
\* of two users: nothing addressed to them is unread, while a message
\* addressed to the other participant is.
C14_Witness ==
    /\ last = Ok("mark_read")
    /\ \E c \in Ids(chats) :
        LET u == chats[c].user1_id
            v == chats[c].user2_id
        IN  /\ u # v
            /\ \E w \in {u, v} :
                /\ AddressedTo(messages, c, w) # {}
                /\ UnreadOf(messages, c, w) = {}
                /\ UnreadOf(messages, c, CHOOSE x \in {u, v} : x # w) # {}

\* C15: when two find-or-create calls for the same pair of users have both
\* looked up and found no chat before either inserted, both insert: once both
\* are done they hold two different chats of that pair.
C15_InterleavedCallsBothInsert ==
    \A w1, w2 \in Workers :
        (/\ w1 # w2
         /\ calls[w1].pc = "done" /\ calls[w2].pc = "done"
         /\ calls[w1].chat = NULL /\ calls[w2].chat = NULL
         /\ {calls[w1].user1_id, calls[w1].user2_id}
                = {calls[w2].user1_id, calls[w2].user2_id})
        => /\ calls[w1].chat_id # calls[w2].chat_id
           /\ {calls[w1].chat_id, calls[w2].chat_id}
                \subseteq ChatsOfPair(chats, calls[w1].user1_id, calls[w1].user2_id)

\* C15 witness: both workers are done with calls that each found no chat, for
\* the same two users in opposite order, and the pair has two chats.
C15_Witness ==
    /\ calls[1].pc = "done" /\ calls[2].pc = "done"
    /\ calls[1].chat = NULL /\ calls[2].chat = NULL
    /\ calls[1].user1_id = calls[2].user2_id
    /\ calls[1].user2_id = calls[2].user1_id
    /\ calls[1].user1_id # calls[1].user2_id
    /\ Cardinality(ChatsOfPair(chats, calls[1].user1_id, calls[1].user2_id)) = 2

\* The rows of a table that a deletion from d to after removed.
Removed(before, after) == Ids(before) \ Ids(after)

\* C16: after the admin deletion of user u has completed, no remaining
\* listing, message, chat or rental request names u, and no remaining rental
\* request names a listing or a chat that the deletion removed.
C16_DeletionLeavesNoReference ==
    \A u \in Ids(users) :
        \A o \in admin_delete_user(DB, u) :
            o.resp.code = 302 =>
                /\ u \notin Ids(o.db.users)
                /\ \A l \in Ids(o.db.listings) : o.db.listings[l].user_id # u
                /\ \A m \in Ids(o.db.messages) : o.db.messages[m].sender_id # u
                /\ \A c \in Ids(o.db.chats) :
                        u \notin {o.db.chats[c].user1_id, o.db.chats[c].user2_id}
                /\ \A r \in Ids(o.db.requests) :
                    /\ u \notin {o.db.requests[r].renter_id, o.db.requests[r].owner_id}
                    /\ o.db.requests[r].listing_id
                            \notin Removed(listings, o.db.listings)
                    /\ o.db.requests[r].chat_id \notin Removed(chats, o.db.chats)

\* C17 as claimed: when the deletion fails at a step after the first, what the
\* earlier steps deleted stays deleted while the user remains.
C17_FailureLeavesPartialDeletion ==
    \A u \in Ids(users) :
        \A o \in admin_delete_user(DB, u) :
            (o.resp.code = 500 /\ o.step > 1) =>
                /\ u \in Ids(o.db.users)
                /\ o.db = DeleteChatMessagesOf(
                            DeleteMessagesOf(DeleteListingsOf(DB, u), u), u)

\* C17 as amended: when the deletion fails at any step, the database is as it
\* was before the request: the user and every row the steps deleted are there.
C17_FailureChangesNothing ==
    \A u \in Ids(users) :
        \A o \in admin_delete_user(DB, u) :
            o.resp.code = 500 => o.db = DB

\* C17 witness: the deletion of a user fails at the fourth step, after the
\* second or third step has deleted a message.
C17_Witness ==
    \E u \in Ids(users) :
        \E o \in admin_delete_user(DB, u) :
            /\ o.resp.code = 500
            /\ o.step = 4
            /\ DeleteChatMessagesOf(DeleteMessagesOf(DB, u), u).messages # messages

\* Two texts are equal when the case of their letters is ignored.
SameIgnoringCase(x, y) ==
    /\ Len(x) = Len(y)
    /\ \A i \in 1..Len(x) : LowerChar(x[i]) = LowerChar(y[i])

\* C18: no two users have emails that are equal ignoring letter case, and no
\* two users have the same phone; a signup whose email differs from the email
\* of an existing user by letter case at most answers the conflict error (400,
\* "Email already registered") and creates no user.
C18_UniqueEmailAndPhone ==
    /\ \A u, v \in Ids(users) :
        u # v => /\ ~SameIgnoringCase(users[u].email, users[v].email)
                 /\ users[u].phone # users[v].phone
    /\ \A e \in EmailInputs, p \in PhoneInputs \ {<<>>} :
        (\E u \in Ids(users) : SameIgnoringCase(users[u].email, e))
            => \A o \in api_signup(DB, "n", e, p, "p") :
                /\ o.resp.code = 400
                /\ o.message = "Email already registered"
                /\ o.db = DB

\* C18 witness: the last change was a signup, two users exist, and a signup
\* with the email of one of them in capitals is answered with the conflict.
C18_Witness ==
    /\ last = Ok("api_signup")
    /\ Cardinality(Ids(users)) = 2
    /\ \E u \in Ids(users) :
        /\ users[u].email = <<"a">>
        /\ \A o \in api_signup(DB, "n", <<"A">>, <<"9">>, "p") :
                o.resp.code = 400 /\ o.db = DB

\* The user whose email is the given one, case and outer blanks ignored.
AccountsOf(us, email) ==
    {u \in Ids(us) : SameIgnoringCase(us[u].email, Strip(email))}

\* C19: login answers 401 for an email of no user, 403 for a blocked user
\* whether or not the password is right, 401 for an unblocked user with a
\* wrong password, and succeeds only for an unblocked user with the right
\* password.
C19_LoginOrder ==
    \A e \in EmailInputs \ {<<>>}, w \in PasswordInputs \ {""} :
        \A o \in api_login(DB, e, w) :
            LET accounts == AccountsOf(users, e)
                right(u) == users[u].password = generate_password_hash(w)
            IN  /\ accounts = {} => o.resp.code = 401
                /\ (\E u \in accounts : users[u].is_blocked) => o.resp.code = 403
                /\ (\E u \in accounts : ~users[u].is_blocked /\ ~right(u))
                        => o.resp.code = 401
                /\ Succeeded(o) <=>
                        \E u \in accounts : ~users[u].is_blocked /\ right(u)
                /\ Succeeded(o) => o.user_id \in accounts

\* C19 witness: the last change blocked a user; a login to the blocked
\* account with a wrong password is answered 403, and a login to another
\* account with its password succeeds.
C19_Witness ==
    /\ last = Redirect("admin_block_user")
    /\ \E u, v \in Ids(users), w \in PasswordInputs \ {""} :
        /\ users[u].is_blocked
        /\ users[u].password # generate_password_hash(w)
        /\ \A o \in api_login(DB, users[u].email, w) : o.resp.code = 403
        /\ ~users[v].is_blocked
        /\ \A o \in api_login(DB, users[v].email, w) : Succeeded(o)

\* C20: the status query for (listing, user) reports that no request exists
\* when the user has made no request for the listing, and otherwise reports
\* the status, the id and the chat id of the request of highest id among the
\* requests of that user as renter for that listing.
C20_StatusOfNewestRequest ==
    \A l \in IdInputs(listings), u \in UserIds :
        LET theirs == {r \in Ids(requests) :
                        requests[r].listing_id = l /\ requests[r].renter_id = u}
        IN  /\ \A o \in rent_status(DB, l, u) :
                /\ o.db = DB
                /\ o.exists <=> theirs # {}
                /\ o.exists =>
                    /\ o.request_id \in theirs
                    /\ \A r \in theirs : r <= o.request_id
                    /\ o.status = requests[o.request_id].status
                    /\ o.chat_id = requests[o.request_id].chat_id
            /\ \A o \in check_rent_request(DB, l, u) :
                /\ o.db = DB
                /\ o.exists <=> theirs # {}
                /\ o.exists =>
                    \E r \in theirs : /\ \A q \in theirs : q <= r
                                      /\ o.status = requests[r].status

\* C20 witness: a renter has two requests for one listing, the older one
\* declined and the newer one pending, and the status query reports the newer.
C20_Witness ==
    \E r1, r2 \in Ids(requests) :
        /\ r1 < r2
        /\ requests[r1].listing_id = requests[r2].listing_id
        /\ requests[r1].renter_id = requests[r2].renter_id
        /\ requests[r1].status = "declined"
        /\ requests[r2].status = "pending"
        /\ \A o \in rent_status(DB, requests[r2].listing_id, requests[r2].renter_id) :
                o.request_id = r2 /\ o.status = "pending"

\* C22: in every reachable state the status of every rental request is one of
\* "pending", "accepted", "declined", "returned": no operation makes a request
\* "ongoing".
C22_NeverOngoing ==
    \A r \in Ids(requests) :
        requests[r].status \in {"pending", "accepted", "declined", "returned"}

\* C23: in every reachable state a listing with a rental request that is
\* "accepted" has is_rented true and is not in the public feed, whatever was
\* decided or returned on the other requests of the listing.
C23_AcceptedListingStaysHidden ==
    \A r \in Ids(requests) :
        (requests[r].status = "accepted" /\ requests[r].listing_id \in Ids(listings))
            => /\ listings[requests[r].listing_id].is_rented
               /\ requests[r].listing_id \notin get_listings(listings)

\* The place of a message status in the order sent < delivered < seen.
StatusRank(status) ==
    CASE status = "sent" -> 1
      [] status = "delivered" -> 2
      [] status = "seen" -> 3

\* C25: in every step of send, fetch and mark_read no message moves backwards
\* in the order sent < delivered < seen, and a message that is "seen" stays
\* "seen" with its read flag true.
C25_StatusNeverMovesBack ==
    [][\A m \in Ids(messages) \cap Ids(messages') :
            /\ StatusRank(messages'[m].status) >= StatusRank(messages[m].status)
            /\ messages[m].status = "seen"
                => messages'[m].status = "seen" /\ messages'[m].is_read]_vars

\* C25 witness: the last change was a fetch in a chat where an earlier message
\* of the same sender is "seen" and read and a later one became "delivered".
C25_Witness ==
    /\ last = Ok("get_messages")
    /\ \E m1, m2 \in Ids(messages) :
        /\ m1 < m2
        /\ messages[m1].chat_id = messages[m2].chat_id
        /\ messages[m1].sender_id = messages[m2].sender_id
        /\ messages[m1].status = "seen" /\ messages[m1].is_read
        /\ messages[m2].status = "delivered"

\* C26: in every reachable state the read flag of a message is true if and
\* only if its status is "seen".
C26_ReadIffSeen ==
    \A m \in Ids(messages) : messages[m].is_read <=> messages[m].status = "seen"

\* C26 witness: three messages, one of each status, of which exactly the
\* "seen" one is read.
C26_Witness ==
    \E m1, m2, m3 \in Ids(messages) :
        /\ messages[m1].status = "sent" /\ ~messages[m1].is_read
        /\ messages[m2].status = "delivered" /\ ~messages[m2].is_read
        /\ messages[m3].status = "seen" /\ messages[m3].is_read

\* C28: in every reachable state every message belongs to an existing chat
\* and was sent by one of the two participants of that chat; a send that names
\* a chat that does not exist, or a sender who is not in the chat, persists no
\* message.
C28_MessagesBelongToChats ==
    /\ \A m \in Ids(messages) :
        /\ messages[m].chat_id \in Ids(chats)
        /\ messages[m].sender_id \in {chats[messages[m].chat_id].user1_id,
                                      chats[messages[m].chat_id].user2_id}
    /\ \A c \in IdInputs(chats), u \in UserIds, k \in SendInputs :
        (c \notin Ids(chats) \/ u \notin {chats[c].user1_id, chats[c].user2_id})
            => \A o \in send_message(DB, c, u, k) : o.db.messages = messages

\* C27: in every reachable state every rental request's chat id is the id of
\* an existing chat whose two participants are the request's renter and
\* owner, and the owner's view and the renter's view annotate every request
\* with the chat id recorded on it.
C27_RequestChatIsThePairsChat ==
    /\ \A r \in Ids(requests) :
        /\ requests[r].chat_id \in Ids(chats)
        /\ {chats[requests[r].chat_id].user1_id, chats[requests[r].chat_id].user2_id}
                = {requests[r].renter_id, requests[r].owner_id}
    /\ \A u \in UserIds :
        \A o \in owner_rental_requests(DB, u) \cup my_rentals(DB, u) :
            Succeeded(o) =>
                \A r \in DOMAIN o.chat_ids : o.chat_ids[r] = requests[r].chat_id

\* C27 witness: a request between two different users whose listing exists;
\* the owner's view goes through and shows the request with its chat id.
C27_Witness ==
    \E r \in Ids(requests) :
        /\ requests[r].renter_id # requests[r].owner_id
        /\ \A o \in owner_rental_requests(DB, requests[r].owner_id) :
            /\ Succeeded(o)
            /\ r \in DOMAIN o.chat_ids
            /\ o.chat_ids[r] = requests[r].chat_id

\* C29: every request marked renter_verified has safety_rules_agreed true and
\* a non-empty ID photo and selfie.
C29_VerifiedHasArtifacts ==
    \A r \in Ids(requests) :
        requests[r].renter_verified =>
            /\ requests[r].safety_rules_agreed
            /\ requests[r].cnic_image \notin {"", "None"}
            /\ requests[r].selfie_image \notin {"", "None"}

\* The ids of a nearby result, in order.
NearbyIds(nearby) == [i \in 1..Len(nearby) |-> nearby[i].id]

\* The searches of the model that name a point.
SearchPoints == {p \in PointInputs : p[1] # <<>> /\ p[2] # <<>>}

\* The distance in metres from a search point to a listing with coordinates.
DistanceTo(p, l) ==
    haversine(p[1][1], p[2][1], listings[l].latitude[1], listings[l].longitude[1])

\* C21: a nearby search from a point returns exactly the listings with known
\* (non-null) latitude and longitude at most 15 km from the point, each once,
\* in ascending order of their distance; when a listing is exactly at the
\* point, the first result is such a listing, with distance 0.
C21_NearbyExactlyWithinRadius ==
    \A p \in SearchPoints : \A o \in nearby_listings(DB, p[1], p[2]) :
        LET known  == {l \in Ids(listings) : /\ listings[l].latitude # <<>>
                                             /\ listings[l].longitude # <<>>}
            within == {l \in known : DistanceTo(p, l) <= radius_km * 1000}
            ids    == NearbyIds(o.nearby)
        IN  /\ Succeeded(o)
            /\ {ids[i] : i \in 1..Len(ids)} = within
            /\ Len(ids) = Cardinality(within)
            /\ \A i, j \in 1..Len(ids) :
                    i < j => o.nearby[i].distance <= o.nearby[j].distance
            /\ (\E l \in within : DistanceTo(p, l) = 0)
                    => /\ DistanceTo(p, ids[1]) = 0
                       /\ o.nearby[1].distance = 0

\* C24: a listing whose is_rented flag is true is returned by none of the
\* public feed, the nearby search and the location-text search.
C24_RentedListingIsBrowsedNowhere ==
    \A l \in Ids(listings) :
        listings[l].is_rented =>
            /\ l \notin get_listings(listings)
            /\ \A p \in PointInputs : \A o \in nearby_listings(DB, p[1], p[2]) :
                    \A i \in 1..Len(o.nearby) : o.nearby[i].id # l
            /\ \A c \in CityInputs, a \in AreaInputs :
                    \A o \in listings_by_location(DB, c, a) : l \notin o.results

====
